---- MODULE Spec2Model ----
(***************************************************************************)
(* Cash Custody Management System (streamlit-Cash-Custody-app.py).         *)
(*                                                                         *)
(* The ledger is an SQLite file with two AUTOINCREMENT tables, accounts    *)
(* and transactions.  Every function of the script opens a connection of   *)
(* its own; Python's sqlite3 opens a transaction implicitly before the     *)
(* first INSERT/UPDATE/DELETE of a connection, keeps the changes private   *)
(* to that connection until conn.commit(), and lets one connection at a    *)
(* time hold the write lock of the file.  Each browser session runs the    *)
(* whole script top to bottom on every widget interaction (a rerun), with  *)
(* its own st.session_state.                                               *)
(*                                                                         *)
(* Spec        : the sessions of the application, running reruns            *)
(*               concurrently, from an empty store.                        *)
(* SpecWriters : two sessions that read and add transactions concurrently  *)
(*               on a ledger that holds the accounts Safe and Bank.        *)
(* SpecApi     : add_account / add_transaction called one after the other  *)
(*               with arbitrary arguments.                                 *)
(*                                                                         *)
(* Balances and amounts are SQLite REALs in the program; they are modelled *)
(* as integers (exact arithmetic, no rounding).                            *)
(***************************************************************************)
EXTENDS Integers, Sequences, FiniteSets, TLC

\* ---------------------------------------------------------------- bounds
Sessions == {"s1", "s2"}          \* concurrent browser sessions
Names == {"Safe", "Bank"}         \* texts typed into "Account Name"
MaxTx == 1                        \* rows the transactions table may hold (Spec, SpecApi)
MaxRaceTx == 2                    \* rows the transactions table may hold (SpecWriters)
MaxInit == 1                      \* largest "Initial Balance" entered
MaxAmount == 1                    \* largest "Amount" entered

None == "None"                    \* Python's None where a text is expected
Null == 0 - 1                     \* Python's None / SQL NULL where an account id is expected
Types == {"DEPOSIT", "EXPENSE", "TRANSFER"}
Buttons == {"add_account", "add_transaction", "confirm_reset", "export"}
NoData == [type |-> None, amount |-> 0, from_account_id |-> Null, to_account_id |-> Null]

VARIABLES
    db,             \* the committed content of cash_custody.db
    lock,           \* the session whose connection holds the write lock, or None
    work,           \* work[s]: the uncommitted content seen by s's open connection
    pc,             \* pc[s]: where session s is in its script run
    trigger,        \* trigger[s]: the widget whose interaction caused the run
    accounts,       \* accounts[s]: the script global `accounts`, while the run uses it
    txdata,         \* txdata[s]: the tuple handed to add_transaction
    confirm_reset,  \* confirm_reset[s]: st.session_state["confirm_reset"]
    shown,          \* shown[s]: the buttons the last run rendered
    err,            \* err[s]: the exception that ended the last run, or "none"
    audit,          \* history: balances at creation, expected balances, commits
    api             \* SpecApi: the last direct call and its outcome

vars == <<db, lock, work, pc, trigger, accounts, txdata, confirm_reset,
          shown, err, audit, api>>

\* ------------------------------------------------------------ the store
EmptyTable == [i \in {} |-> 0]

InitDb ==
    [accounts |-> EmptyTable, transactions |-> <<>>,
     seq_accounts |-> 0, seq_transactions |-> 0]

SetMax(S) == IF S = {} THEN 0 ELSE CHOOSE m \in S : \A x \in S : x <= m

Max2(a, b) == IF a >= b THEN a ELSE b

\* INTEGER PRIMARY KEY AUTOINCREMENT: one more than the largest id ever used.
NextAccountId(d) == Max2(d.seq_accounts, SetMax(DOMAIN d.accounts)) + 1

NextTransactionId(d) ==
    Max2(d.seq_transactions,
         SetMax({d.transactions[i].id : i \in 1..Len(d.transactions)})) + 1

\* name TEXT NOT NULL UNIQUE
NameTaken_Never(accts, name) == FALSE

NameTaken(accts, name) == \E i \in DOMAIN accts : accts[i].name = name

\* INSERT INTO accounts (name, balance) VALUES (?, ?)
InsertAccount(d, name, balance) ==
    LET new == NextAccountId(d) IN
    [d EXCEPT !.accounts = [i \in DOMAIN d.accounts \cup {new} |->
                               IF i = new
                               THEN [name |-> name, balance |-> balance]
                               ELSE d.accounts[i]],
              !.seq_accounts = new]

\* INSERT INTO transactions (...) VALUES (...): no foreign key is enforced
\* (SQLite leaves PRAGMA foreign_keys off) and no column is checked.
InsertTransaction(d, t) ==
    LET new == NextTransactionId(d) IN
    [d EXCEPT !.transactions =
                  Append(@, [id |-> new, type |-> t.type, amount |-> t.amount,
                             from_account_id |-> t.from_account_id,
                             to_account_id |-> t.to_account_id]),
              !.seq_transactions = new]

\* UPDATE accounts SET balance = balance + ? WHERE id = ?  (no row: no effect)
UpdateBalance(accts, id, delta) ==
    IF id \in DOMAIN accts
    THEN [accts EXCEPT ![id].balance = @ + delta]
    ELSE accts

\* Python truth value of an account id: None and 0 are false.
Truthy(id) == id # Null /\ id # 0

DepositBranch_CreditOnly(accts, amount, from, to) ==
    IF Truthy(to) THEN UpdateBalance(accts, to, amount) ELSE accts

DepositBranch(accts, amount, from, to) ==
    LET a1 == IF Truthy(to) THEN UpdateBalance(accts, to, amount) ELSE accts
    IN  IF Truthy(from) THEN UpdateBalance(a1, from, 0 - amount) ELSE a1

TransferBranch(accts, amount, from, to) ==
    LET a1 == IF Truthy(from) THEN UpdateBalance(accts, from, 0 - amount) ELSE accts
    IN  IF Truthy(to) THEN UpdateBalance(a1, to, amount) ELSE a1

ExpenseBranch(accts, amount, from, to) ==
    LET a1 == IF Truthy(from) THEN UpdateBalance(accts, from, 0 - amount) ELSE accts
    IN  IF Truthy(to) THEN UpdateBalance(a1, to, amount) ELSE a1

\* the if / elif chain of add_transaction
UpdateBalances(accts, t) ==
    IF t.type = "DEPOSIT"
    THEN DepositBranch(accts, t.amount, t.from_account_id, t.to_account_id)
    ELSE IF t.type = "TRANSFER"
    THEN TransferBranch(accts, t.amount, t.from_account_id, t.to_account_id)
    ELSE IF t.type = "EXPENSE"
    THEN ExpenseBranch(accts, t.amount, t.from_account_id, t.to_account_id)
    ELSE accts

\* DELETE FROM accounts / transactions / sqlite_sequence
ClearAll_KeepSequence(d) ==
    [d EXCEPT !.accounts = EmptyTable, !.transactions = <<>>]

ClearAll(d) ==
    [accounts |-> EmptyTable, transactions |-> <<>>,
     seq_accounts |-> 0, seq_transactions |-> 0]

\* LEFT JOIN accounts ON id: the name, or NULL when no account has the id
NameOf(accts, id) == IF id \in DOMAIN accts THEN accts[id].name ELSE None

\* get_transactions: every row with its account ids resolved to names
get_transactions(d) ==
    [i \in 1..Len(d.transactions) |->
        [id |-> d.transactions[i].id, type |-> d.transactions[i].type,
         amount |-> d.transactions[i].amount,
         from_account |-> NameOf(d.accounts, d.transactions[i].from_account_id),
         to_account |-> NameOf(d.accounts, d.transactions[i].to_account_id)]]

\* get_accounts: the rows of the accounts table
get_accounts(d) == d.accounts

\* What the rest of a run uses of `accounts` once it is displayed: the name
\* under each id (the selectbox options and the lookup of the chosen names).
SelectOptions(rows) == [i \in DOMAIN rows |-> rows[i].name]

\* next((acc["id"] for acc in accounts if acc["name"] == name), None)
IdOfName(opts, name) ==
    IF \E i \in DOMAIN opts : opts[i] = name
    THEN CHOOSE i \in DOMAIN opts :
             opts[i] = name /\ \A j \in DOMAIN opts : opts[j] = name => i <= j
    ELSE Null

\* --------------------------------------------- connections and the lock
\* A connection may start writing when no other connection holds the lock.
WriteLockFree_NoLock(s) == TRUE

WriteLockFree(s) == lock = None

\* What other connections read after cursor.execute and before conn.commit:
\* the committed content d, not the writer's content w.
VisibleBeforeCommit_Autocommit(d, w) == w

VisibleBeforeCommit(d, w) == d

\* ------------------------------------------------------------- history
\* signed delta of a transaction for an account id
SignedDelta(t, id) ==
    (IF t.to_account_id = id THEN t.amount ELSE 0)
    - (IF t.from_account_id = id THEN t.amount ELSE 0)

AuditAdd(a, id, balance) ==
    [a EXCEPT !.created = [i \in DOMAIN a.created \cup {id} |->
                              IF i = id THEN balance ELSE a.created[i]],
              !.expected = [i \in DOMAIN a.expected \cup {id} |->
                              IF i = id THEN balance ELSE a.expected[i]]]

AuditApply(a, t) ==
    [a EXCEPT !.expected = [i \in DOMAIN a.expected |-> a.expected[i] + SignedDelta(t, i)],
              !.committed = @ + 1]

AuditClear == [created |-> EmptyTable, expected |-> EmptyTable, committed |-> 0]

NoCall == [op |-> "none", name |-> None, balance |-> 0, data |-> NoData, err |-> "none"]

\* ---------------------------------------------------------------- Init
Init ==
    /\ db = InitDb
    /\ lock = None
    /\ work = [s \in Sessions |-> InitDb]
    /\ pc = [s \in Sessions |-> "idle"]
    /\ trigger = [s \in Sessions |-> "none"]
    /\ accounts = [s \in Sessions |-> EmptyTable]
    /\ txdata = [s \in Sessions |-> NoData]
    /\ confirm_reset = [s \in Sessions |-> FALSE]
    /\ shown = [s \in Sessions |-> {}]
    /\ err = [s \in Sessions |-> "none"]
    /\ audit = AuditClear
    /\ api = NoCall


\* ------------------------------------------------- one run of the script
AllTriggers == {"none"} \cup Buttons

\* add_transaction calls that runs in progress have yet to commit
Pending ==
    {t \in Sessions : pc[t] \in {"add_transaction", "tx_update", "tx_commit"}}

\* The run of s is over (its end, or an exception that Streamlit reports): the
\* script globals die with it; st.session_state and the rendered page stay.
EndRun(s, e, rendered) ==
    /\ pc' = [pc EXCEPT ![s] = "idle"]
    /\ trigger' = [trigger EXCEPT ![s] = "none"]
    /\ accounts' = [accounts EXCEPT ![s] = EmptyTable]
    /\ txdata' = [txdata EXCEPT ![s] = NoData]
    /\ err' = [err EXCEPT ![s] = e]
    /\ shown' = [shown EXCEPT ![s] = rendered]

\* A widget interaction (or the first page load) starts a run: the script
\* reads and displays both tables, then comes to the section of the button
\* that was clicked, if any.  A button can be clicked only if the last run
\* rendered it.  `accounts` is kept for the one section that uses it after
\* the display, the Add Transaction form.  cap bounds the rows of the
\* transactions table.
RerunWith(s, triggers, cap) ==
    /\ pc[s] = "idle"
    /\ \E trig \in triggers \cap ({"none"} \cup shown[s]) :
         /\ trig = "add_transaction" =>
                Len(db.transactions) + Cardinality(Pending) < cap
         /\ trigger' = [trigger EXCEPT ![s] = trig]
         /\ accounts' = [accounts EXCEPT ![s] =
                            IF trig = "add_transaction"
                            THEN SelectOptions(get_accounts(db))
                            ELSE EmptyTable]
         /\ pc' = [pc EXCEPT ![s] =
                      IF trig \in {"add_account", "add_transaction"} THEN trig ELSE "reset"]
    /\ shown' = [shown EXCEPT ![s] = {}]
    /\ err' = [err EXCEPT ![s] = "none"]
    /\ UNCHANGED <<db, lock, work, txdata, confirm_reset, audit, api>>

Rerun(s) == RerunWith(s, AllTriggers, MaxTx)

\* if st.sidebar.button("Add Account"): add_account(account_name, account_balance)
AddAccount(s) ==
    /\ pc[s] = "add_account"
    /\ WriteLockFree(s)
    /\ \E name \in Names, balance \in 0..MaxInit :
         IF NameTaken(db.accounts, name)
         THEN /\ EndRun(s, "IntegrityError", {"add_account"})
              /\ UNCHANGED <<db, audit>>
         ELSE /\ db' = InsertAccount(db, name, balance)
              /\ audit' = AuditAdd(audit, NextAccountId(db), balance)
              /\ pc' = [pc EXCEPT ![s] = "reset"]
              /\ UNCHANGED <<trigger, accounts, txdata, err, shown>>
    /\ UNCHANGED <<lock, work, confirm_reset, api>>

\* if st.sidebar.button("Add Transaction"): the chosen names are looked up in
\* the run's `accounts`; add_transaction opens a connection and INSERTs.
AddTransaction(s) ==
    /\ pc[s] = "add_transaction"
    /\ WriteLockFree(s)
    /\ \E type \in Types, amount \in 0..MaxAmount,
          from \in {None} \cup {accounts[s][i] : i \in DOMAIN accounts[s]},
          to \in {None} \cup {accounts[s][i] : i \in DOMAIN accounts[s]} :
         LET t == [type |-> type, amount |-> amount,
                   from_account_id |-> IdOfName(accounts[s], from),
                   to_account_id |-> IdOfName(accounts[s], to)]
             w == InsertTransaction(db, t)
         IN  /\ txdata' = [txdata EXCEPT ![s] = t]
             /\ work' = [work EXCEPT ![s] = w]
             /\ db' = VisibleBeforeCommit(db, w)
    /\ lock' = s
    /\ accounts' = [accounts EXCEPT ![s] = EmptyTable]
    /\ pc' = [pc EXCEPT ![s] = "tx_update"]
    /\ UNCHANGED <<trigger, confirm_reset, shown, err, audit, api>>

\* the balance UPDATEs of add_transaction, inside the open transaction
TxUpdate(s) ==
    /\ pc[s] = "tx_update"
    /\ LET w == [work[s] EXCEPT !.accounts = UpdateBalances(@, txdata[s])]
       IN  /\ work' = [work EXCEPT ![s] = w]
           /\ db' = VisibleBeforeCommit(db, w)
    /\ pc' = [pc EXCEPT ![s] = "tx_commit"]
    /\ UNCHANGED <<lock, trigger, accounts, txdata, confirm_reset, shown, err, audit, api>>

\* conn.commit(); conn.close()
TxCommit(s) ==
    /\ pc[s] = "tx_commit"
    /\ db' = work[s]
    /\ lock' = None
    /\ work' = [work EXCEPT ![s] = InitDb]
    /\ audit' = AuditApply(audit, txdata[s])
    /\ txdata' = [txdata EXCEPT ![s] = NoData]
    /\ pc' = [pc EXCEPT ![s] = "reset"]
    /\ UNCHANGED <<trigger, accounts, confirm_reset, shown, err, api>>

\* An exception between the INSERT and the commit (sqlite3.OperationalError
\* from an UPDATE or from commit): the connection is dropped uncommitted and
\* its transaction is rolled back.
TxFail(s) ==
    /\ pc[s] \in {"tx_update", "tx_commit"}
    /\ work' = [work EXCEPT ![s] = InitDb]
    /\ lock' = None
    /\ EndRun(s, "OperationalError", {"add_account", "add_transaction"})
    /\ UNCHANGED <<db, confirm_reset, audit, api>>

\* The first write of a connection finds the file locked by another
\* connection for longer than the busy timeout: "database is locked".
Busy(s) ==
    /\ lock \notin {None, s}
    /\ \/ /\ pc[s] = "add_account"
          /\ EndRun(s, "OperationalError", {"add_account"})
       \/ /\ pc[s] = "add_transaction"
          /\ EndRun(s, "OperationalError", {"add_account", "add_transaction"})
       \/ /\ pc[s] = "reset" /\ confirm_reset[s]
          /\ EndRun(s, "OperationalError", {"add_account", "add_transaction"})
    /\ UNCHANGED <<db, lock, work, confirm_reset, audit, api>>

\* reset_application(), called by every run; the export section follows it
\* and ends the run (export_transactions only reads the store).
ResetApplication(s) ==
    /\ pc[s] = "reset"
    /\ IF confirm_reset[s]
       THEN /\ WriteLockFree(s)
            /\ db' = ClearAll(db)
            /\ audit' = AuditClear
            /\ confirm_reset' = [confirm_reset EXCEPT ![s] = FALSE]
            /\ EndRun(s, "none", Buttons \ {"confirm_reset"})
       ELSE /\ confirm_reset' = [confirm_reset EXCEPT ![s] = (trigger[s] = "confirm_reset")]
            /\ EndRun(s, "none", Buttons)
            /\ UNCHANGED <<db, audit>>
    /\ UNCHANGED <<lock, work, api>>

Next ==
    \E s \in Sessions :
        \/ Rerun(s)
        \/ AddAccount(s)
        \/ AddTransaction(s)
        \/ TxUpdate(s)
        \/ TxCommit(s)
        \/ TxFail(s)
        \/ Busy(s)
        \/ ResetApplication(s)

Spec == Init /\ [][Next]_vars

\* ------------------------------- concurrent writers on an existing ledger
LedgerOf(b1, b2) ==
    [accounts |-> (1 :> [name |-> "Safe", balance |-> b1])
                  @@ (2 :> [name |-> "Bank", balance |-> b2]),
     transactions |-> <<>>, seq_accounts |-> 2, seq_transactions |-> 0]

InitWriters ==
    /\ \E b1 \in 0..MaxInit, b2 \in 0..MaxInit :
         /\ db = LedgerOf(b1, b2)
         /\ audit = [created |-> (1 :> b1) @@ (2 :> b2),
                     expected |-> (1 :> b1) @@ (2 :> b2), committed |-> 0]
    /\ lock = None
    /\ work = [s \in Sessions |-> InitDb]
    /\ pc = [s \in Sessions |-> "idle"]
    /\ trigger = [s \in Sessions |-> "none"]
    /\ accounts = [s \in Sessions |-> EmptyTable]
    /\ txdata = [s \in Sessions |-> NoData]
    /\ confirm_reset = [s \in Sessions |-> FALSE]
    /\ shown = [s \in Sessions |-> Buttons]
    /\ err = [s \in Sessions |-> "none"]
    /\ api = NoCall

NextWriters ==
    \E s \in Sessions :
        \/ RerunWith(s, {"none", "add_transaction"}, MaxRaceTx)
        \/ AddTransaction(s)
        \/ TxUpdate(s)
        \/ TxCommit(s)
        \/ TxFail(s)
        \/ Busy(s)
        \/ ResetApplication(s)

SpecWriters == InitWriters /\ [][NextWriters]_vars

\* ------------------------------------------- the functions called directly
SessionVars == <<lock, work, pc, trigger, accounts, txdata, confirm_reset, shown, err>>

ApiTypes == Types \cup {"REFUND"}

ApiIds == {Null} \cup (0..Cardinality(Names))

\* add_account(name, balance)
ApiAddAccount ==
    \E name \in Names, balance \in 0..MaxInit :
        IF NameTaken(db.accounts, name)
        THEN /\ api' = [op |-> "add_account", name |-> name, balance |-> balance,
                        data |-> NoData, err |-> "IntegrityError"]
             /\ UNCHANGED <<db, audit, SessionVars>>
        ELSE /\ db' = InsertAccount(db, name, balance)
             /\ audit' = AuditAdd(audit, NextAccountId(db), balance)
             /\ api' = [op |-> "add_account", name |-> name, balance |-> balance,
                        data |-> NoData, err |-> "none"]
             /\ UNCHANGED SessionVars

\* add_transaction(transaction_data), from the connect to the commit
ApiAddTransaction ==
    /\ Len(db.transactions) < MaxTx
    /\ \E type \in ApiTypes, amount \in (0 - MaxAmount)..MaxAmount,
          from \in ApiIds, to \in ApiIds :
         LET t == [type |-> type, amount |-> amount,
                   from_account_id |-> from, to_account_id |-> to]
             w == InsertTransaction(db, t)
         IN  /\ db' = [w EXCEPT !.accounts = UpdateBalances(@, t)]
             /\ audit' = AuditApply(audit, t)
             /\ api' = [op |-> "add_transaction", name |-> None, balance |-> 0,
                        data |-> t, err |-> "none"]
    /\ UNCHANGED SessionVars

NextApi ==
    \/ ApiAddAccount
    \/ ApiAddTransaction

SpecApi == Init /\ [][NextApi]_vars

\* ================================================================ claims
RECURSIVE SumDeltas(_, _)
\* the signed deltas of the rows of a log for an account id, added up
SumDeltas(log, id) ==
    IF log = <<>> THEN 0
    ELSE SignedDelta(Head(log), id) + SumDeltas(Tail(log), id)

RECURSIVE SumOver(_, _)
SumOver(accts, ids) ==
    IF ids = {} THEN 0
    ELSE LET i == CHOOSE x \in ids : TRUE
         IN  accts[i].balance + SumOver(accts, ids \ {i})

\* the sum of all accounts' balances
TotalBalance(d) == SumOver(d.accounts, DOMAIN d.accounts)

\* t names an account id that the accounts table of d does not hold
Dangling(t, d) ==
    \/ t.from_account_id # Null /\ t.from_account_id \notin DOMAIN d.accounts
    \/ t.to_account_id # Null /\ t.to_account_id \notin DOMAIN d.accounts

\* the step in which session s commits its add_transaction
Commits(s) == pc[s] = "tx_commit" /\ pc'[s] = "reset"

\* the step in which session s deletes all accounts and transactions
Clears(s) == confirm_reset[s] /\ ~confirm_reset'[s]

\* C1 (as claimed): in every state, every account's balance equals the
\* balance it was created with plus the signed deltas of all the rows of the
\* transaction log that reference its id.
C1_Auditability ==
    \A id \in DOMAIN db.accounts :
        db.accounts[id].balance =
            audit.created[id] + SumDeltas(db.transactions, id)

\* C2 (as claimed): an add_transaction whose from or to id is not in the
\* accounts table never changes the store and never completes normally.
C2_NotFoundRollsBack ==
    [][\A s \in Sessions :
          (pc[s] \in {"tx_update", "tx_commit"} /\ Dangling(txdata[s], db))
              => (db' = db /\ pc'[s] # "reset")]_vars

\* C3 (as claimed): committing a TRANSFER with both account ids set leaves
\* the sum of all balances as it was.
C3_Conservation ==
    [][\A s \in Sessions :
          (Commits(s) /\ txdata[s].type = "TRANSFER"
             /\ txdata[s].from_account_id # Null /\ txdata[s].to_account_id # Null)
              => TotalBalance(db') = TotalBalance(db)]_vars

\* C4: a committed add_transaction of any of the three types appends exactly
\* one row, holding the call's data, and changes the balance of every account
\* by +amount if it is the to side and -amount if it is the from side (a null
\* side and every other account: no change), without an error.
C4_BalanceEffect ==
    [][\A s \in Sessions :
          (Commits(s) /\ txdata[s].type \in Types) =>
              LET t == txdata[s]
                  n == Len(db.transactions)
              IN  /\ Len(db'.transactions) = n + 1
                  /\ SubSeq(db'.transactions, 1, n) = db.transactions
                  /\ db'.transactions[n + 1].type = t.type
                  /\ db'.transactions[n + 1].amount = t.amount
                  /\ db'.transactions[n + 1].from_account_id = t.from_account_id
                  /\ db'.transactions[n + 1].to_account_id = t.to_account_id
                  /\ DOMAIN db'.accounts = DOMAIN db.accounts
                  /\ \A id \in DOMAIN db.accounts :
                        /\ db'.accounts[id].name = db.accounts[id].name
                        /\ db'.accounts[id].balance =
                              db.accounts[id].balance
                              + (IF id = t.to_account_id THEN t.amount ELSE 0)
                              - (IF id = t.from_account_id THEN t.amount ELSE 0)
                  /\ err'[s] = "none"]_vars

\* a DEPOSIT of 1 into Bank with a null from side has just been committed,
\* and Safe was left alone
C4_Witness ==
    \E s \in Sessions :
        /\ pc[s] = "reset" /\ trigger[s] = "add_transaction" /\ err[s] = "none"
        /\ Len(db.transactions) = 1
        /\ db.transactions[1].type = "DEPOSIT"
        /\ db.transactions[1].amount = 1
        /\ db.transactions[1].from_account_id = Null
        /\ db.transactions[1].to_account_id = 2
        /\ db.accounts[2].balance = audit.created[2] + 1
        /\ db.accounts[1].balance = audit.created[1]

\* C5 (as claimed): a session's reset deletes the store, and its confirmation
\* flag falls, only in a run started by an explicit confirmation click.
C5_ResetGated ==
    [][\A s \in Sessions : Clears(s) => trigger[s] = "confirm_reset"]_vars

\* C6: no two accounts share a name, and the run in which add_account raises
\* the duplicate-name error leaves the store as it was.
C6_UniqueNames ==
    /\ [](\A i, j \in DOMAIN db.accounts :
             db.accounts[i].name = db.accounts[j].name => i = j)
    /\ [][\A s \in Sessions :
             (err'[s] = "IntegrityError" /\ err[s] # "IntegrityError") => db' = db]_vars

\* an add_account with a name already in the table has just been refused
C6_Witness ==
    \E s \in Sessions :
        /\ err[s] = "IntegrityError" /\ pc[s] = "idle"
        /\ DOMAIN db.accounts # {}

C8_ResetRestartsIds ==
    [][\A s \in Sessions :
          Clears(s) =>
              /\ get_accounts(db') = EmptyTable
              /\ get_transactions(db') = <<>>
              /\ NextAccountId(db') = NextAccountId(InitDb)
              /\ NextTransactionId(db') = NextTransactionId(InitDb)]_vars

\* a run read a ledger of two accounts; since then the store was cleared and
\* the next account created received id 1 again
C8_Witness ==
    \E t \in Sessions :
        /\ DOMAIN accounts[t] = {1, 2}
        /\ DOMAIN db.accounts = {1}
        /\ db.seq_accounts = 1

C10_NoLostUpdate ==
    /\ Len(db.transactions) = audit.committed
    /\ DOMAIN db.accounts = DOMAIN audit.expected
    /\ \A id \in DOMAIN db.accounts : db.accounts[id].balance = audit.expected[id]

\* both sessions, in runs that overlap, have committed a credit of 1 to Safe
C10_Witness ==
    /\ \A s \in Sessions : pc[s] = "reset" /\ trigger[s] = "add_transaction"
    /\ Len(db.transactions) = 2
    /\ \A i \in 1..2 :
          /\ db.transactions[i].to_account_id = 1
          /\ db.transactions[i].from_account_id = Null
          /\ db.transactions[i].amount = 1
    /\ db.accounts[1].balance = audit.created[1] + 2

====
